---------------------------- MODULE Spec2Model ----------------------------
(***************************************************************************)
(* A model of zipper.py: one run of the command line tool, from main()     *)
(* through create_zip() to the process's exit, and the pure function       *)
(* human_size().                                                           *)
(*                                                                         *)
(* Strings are sequences of one-character strings, so that the file name   *)
(* the code builds by concatenation can be compared with the names found   *)
(* in the walked tree.  A path is a sequence of names.                     *)
(***************************************************************************)
EXTENDS Integers, Sequences, FiniteSets, TLC

(***************************************************************************)
(* Names                                                                   *)
(***************************************************************************)
N_git == <<".", "g", "i", "t">>
N_github == <<".", "g", "i", "t", "h", "u", "b">>
N_node_modules == <<"n", "o", "d", "e", "_", "m", "o", "d", "u", "l", "e", "s">>
N_DS_Store == <<".", "D", "S", "_", "S", "t", "o", "r", "e">>
N_MACOSX == <<"_", "_", "M", "A", "C", "O", "S", "X">>
N_gitignore == <<".", "g", "i", "t", "i", "g", "n", "o", "r", "e">>
N_env == <<".", "e", "n", "v">>
N_vscode == <<".", "v", "s", "c", "o", "d", "e">>
N_idea == <<".", "i", "d", "e", "a">>
N_zip == <<".", "z", "i", "p">>
N_Thumbs == <<"T", "h", "u", "m", "b", "s", ".", "d", "b">>
N_desktop == <<"d", "e", "s", "k", "t", "o", "p", ".", "i", "n", "i">>
N_package_lock == <<"p", "a", "c", "k", "a", "g", "e", "-", "l", "o", "c", "k", ".", "j", "s", "o", "n">>
N_yarn_lock == <<"y", "a", "r", "n", ".", "l", "o", "c", "k">>

N_a_txt == <<"a", ".", "t", "x", "t">>
N_x_js == <<"x", ".", "j", "s">>
N_config == <<"c", "o", "n", "f", "i", "g">>
N_lib == <<"l", "i", "b">>
N_sub == <<"s", "u", "b">>
N_empty == <<"e", "m", "p", "t", "y">>
N_proj == <<"p", "r", "o", "j">>
N_home == <<"h", "o", "m", "e">>
N_rel == <<"r", "e", "l">>
N_proj_zip == N_proj \o N_zip

(* get_excluded_patterns(): the default exclusion patterns. *)
get_excluded_patterns ==
    { N_git, N_github, N_node_modules, N_DS_Store, N_MACOSX,
      N_gitignore, N_env, N_vscode, N_idea, N_zip, N_Thumbs,
      N_desktop, N_package_lock, N_yarn_lock }

(***************************************************************************)
(* The inputs of a run.                                                    *)
(***************************************************************************)
(* The most files a source tree holds. *)
MaxFiles == 3

(* The largest size the finished archive may have on disk. *)
MaxZipSize == 3

(* The files a source tree may hold, as paths under the source root. *)
CandidateFiles ==
    { <<N_a_txt>>, <<N_env>>, <<N_empty>>, <<N_proj_zip>>,
      <<N_git, N_config>>, <<N_node_modules, N_x_js>>,
      <<N_lib, N_x_js>>, <<N_lib, N_git, N_config>>,
      <<N_lib, N_sub, N_a_txt>> }

(* st_size of a file of the tree. *)
SizeOf(p) ==
    CASE p = <<N_a_txt>> -> 10
      [] p = <<N_env>> -> 5
      [] p = <<N_proj_zip>> -> 10
      [] p = <<N_git, N_config>> -> 5
      [] p = <<N_node_modules, N_x_js>> -> 5
      [] p = <<N_lib, N_git, N_config>> -> 5
      [] OTHER -> 0

Trees == { t \in SUBSET CandidateFiles : Cardinality(t) <= MaxFiles }

(* --source: the directory to compress, as the components of its path. *)
SourceDirs == { <<N_home, N_proj>> }

(* What --source names on disk. *)
SourceKinds == { "dir", "missing", "file" }

(* --exclude after split(','): the caller's patterns. *)
ExcludeArgs == { <<>>, <<N_lib>>, <<N_a_txt, N_sub>> }

(* --name: absent (None), or the string given. *)
NameArgs ==
    { [given |-> FALSE, value |-> <<>>],
      [given |-> TRUE, value |-> <<>>],
      [given |-> TRUE, value |-> N_rel] }

(* --output: a directory outside the source tree, the source directory    *)
(* itself (both default to the working directory), or one inside it.      *)
OutputArgs ==
    { [inside |-> FALSE, rel |-> <<>>],
      [inside |-> TRUE, rel |-> <<>>],
      [inside |-> TRUE, rel |-> <<N_lib>>] }

(* What datetime.datetime.now() may return. *)
Clock ==
    { [year |-> 2024, month |-> 1, day |-> 5, hour |-> 9, minute |-> 3, second |-> 7],
      [year |-> 2026, month |-> 11, day |-> 30, hour |-> 23, minute |-> 59, second |-> 0] }

(***************************************************************************)
(* human_size.  A byte count is a Python int, of any size: here the        *)
(* sequence of its base-1024 digits, least significant first, without      *)
(* leading zeros.  Dividing by 1024 moves one digit behind the point; the  *)
(* float the loop holds is exact for every count below 2^53, and is the    *)
(* count rounded to 53 bits above.                                         *)
(***************************************************************************)
(* The divisor of human_size, and the limit it compares with. *)
Base == 1024

(* The most base-1024 digits of a sampled byte count. *)
MaxDigits == 5

DigitSamples == { 0, 1, 2, 128, 384, 500, 1023 }

RECURSIVE ToBig(_)
ToBig(n) == IF n = 0 THEN <<>> ELSE <<n % Base>> \o ToBig(n \div Base)

RECURSIVE BigToInt(_)
BigToInt(d) == IF d = <<>> THEN 0 ELSE Head(d) + Base * BigToInt(Tail(d))

(* d * m + c, digit by digit; the result has one digit more than d. *)
RECURSIVE MulCarry(_, _, _)
MulCarry(d, m, c) ==
    IF d = <<>> THEN <<c>>
    ELSE LET t == Head(d) * m + c
         IN  <<t % Base>> \o MulCarry(Tail(d), m, t \div Base)

RECURSIVE BitLen(_)
BitLen(m) == IF m = 0 THEN 0 ELSE 1 + BitLen(m \div 2)

RECURSIVE Pow2(_)
Pow2(k) == IF k = 0 THEN 1 ELSE 2 * Pow2(k - 1)

RECURSIVE Incr(_)
Incr(d) ==
    IF d = <<>> THEN <<1>>
    ELSE IF Head(d) + 1 < Base THEN <<Head(d) + 1>> \o Tail(d)
    ELSE <<0>> \o Incr(Tail(d))

(* The bits of a double's significand. *)
Mantissa == 53

(* size_bytes /= 1024 on an int gives the double nearest to the quotient:  *)
(* the count rounded to 53 significant bits, ties to even, and then        *)
(* scaled.  This is the rounding; a count below 2^53 is left as it is.     *)
Round53(d) ==
    LET bits == IF d = <<>> THEN 0 ELSE 10 * (Len(d) - 1) + BitLen(d[Len(d)])
    IN  IF bits <= Mantissa THEN d
        ELSE LET e      == bits - Mantissa
                 qd     == e \div 10
                 qb     == e % 10
                 m      == d[qd + 1]
                 keep   == m \div Pow2(qb)
                 half   == IF qb > 0 THEN (m \div Pow2(qb - 1)) % 2 = 1
                           ELSE d[qd] >= Base \div 2
                 sticky == IF qb > 0
                           THEN \/ m % Pow2(qb - 1) # 0
                                \/ \E i \in 1..qd : d[i] # 0
                           ELSE \/ d[qd] % (Base \div 2) # 0
                                \/ \E i \in 1..(qd - 1) : d[i] # 0
                 up     == half /\ (sticky \/ keep % 2 = 1)
                 kept   == (IF up THEN keep + 1 ELSE keep) * Pow2(qb)
                 high   == SubSeq(d, qd + 2, Len(d))
             IN  [i \in 1..qd |-> 0]
                 \o (IF kept < Base THEN <<kept>> \o high
                     ELSE <<0>> \o Incr(high))

(* The list of units human_size walks through. *)
Units == <<"B", "KB", "MB", "GB">>

(* f"{size_bytes} B": the integer, no decimals. *)
FormatInt(d, unit) ==
    [whole |-> BigToInt(d), decimals |-> <<>>, unit |-> unit]

(* f"{size_bytes:.2f} {unit}" of the float d / 1024^j, j >= 1: the value   *)
(* rounded to hundredths, ties to the even hundredth.                      *)
FormatFixed2(d, j, unit) ==
    LET int  == BigToInt(SubSeq(d, j + 1, Len(d)))
        x    == MulCarry(SubSeq(d, 1, j), 100, 0)
        c    == x[j + 1]
        top  == x[j]
        low  == \E i \in 1..(j - 1) : x[i] # 0
        up   == \/ top > Base \div 2
                \/ top = Base \div 2 /\ low
                \/ top = Base \div 2 /\ ~low /\ c % 2 = 1
        h    == IF up THEN c + 1 ELSE c
        cents == h % 100
    IN  [whole |-> int + h \div 100,
         decimals |-> <<cents \div 10, cents % 10>>,
         unit |-> unit]

(* The test without its "or unit == 'GB'". *)
StopsBelowLimitOnly(d, k) == Len(d) <= k

(* The test of the loop at unit k, the value being d / 1024^(k-1). *)
StopsAtGB(d, k) == Len(d) <= k \/ Units[k] = "GB"

(* The loop of human_size from unit k on; None when it falls off the end. *)
RECURSIVE HumanLoop(_, _)
HumanLoop(d, k) ==
    IF k > Len(Units) THEN [whole |-> 0, decimals |-> <<>>, unit |-> "None"]
    ELSE IF StopsAtGB(d, k)
         THEN IF Units[k] # "B" THEN FormatFixed2(Round53(d), k - 1, Units[k])
              ELSE FormatInt(d, Units[k])
         ELSE HumanLoop(d, k + 1)

human_size(size_bytes) == HumanLoop(size_bytes, 1)

(***************************************************************************)
(* State                                                                   *)
(***************************************************************************)
VARIABLES
    fs,            \* the files under the source root, as relative paths
    fs0,           \* fs when the run started
    source_kind,   \* whether source_dir is a directory, missing, or a file
    source_dir,    \* create_zip's source_dir
    output_path,   \* create_zip's output_path
    custom_name,   \* create_zip's custom_name
    exclude,       \* create_zip's exclude
    use_timestamp, \* create_zip's use_timestamp
    pc,            \* the statement create_zip is at
    walk_stack,    \* os.walk's directories still to visit
    file_paths,    \* create_zip's file_paths
    total_size,    \* create_zip's total_size
    zip_path,      \* create_zip's zip_path: [dir, name]
    mkdir_done,    \* zip_path.parent.mkdir has run
    archive,       \* the entries written to the archive, in order
    archive_state, \* "none", "open" or "closed"
    stats,         \* the stats dictionary, once computed
    fault,         \* the operation the environment made fail, or "none"
    out,           \* what was printed: <<kind, detail>> pairs
    exited,        \* the process has ended
    exit_status,   \* its exit status
    size_bytes,    \* human_size's argument
    size_text      \* human_size's result, once it returned

vars ==
    << fs, fs0, source_kind, source_dir, output_path, custom_name, exclude,
       use_timestamp, pc, walk_stack, file_paths, total_size, zip_path,
       mkdir_done, archive, archive_state, stats, fault, out, exited,
       exit_status, size_bytes, size_text >>

inputs == << fs0, source_kind, source_dir, output_path, custom_name, exclude, use_timestamp >>

human == << size_bytes, size_text >>


(***************************************************************************)
(* Helpers of create_zip                                                   *)
(***************************************************************************)
(* The archive opened before the tree is walked. *)
OrderOpensFirst == <<"name", "mkdir", "open", "walk", "check", "write", "stats">>

(* The order of create_zip's phases. *)
Order == <<"walk", "check", "name", "mkdir", "open", "write", "stats">>

After(p) ==
    LET i == CHOOSE k \in 1..Len(Order) : Order[k] = p
    IN  IF i = Len(Order) THEN "done" ELSE Order[i + 1]

(* exclude_patterns = get_excluded_patterns().union(set(exclude or [])) *)
exclude_patterns ==
    get_excluded_patterns \cup { exclude[i] : i \in DOMAIN exclude }

IsPrefix(a, b) == Len(a) <= Len(b) /\ SubSeq(b, 1, Len(a)) = a

(* The enumerations of a finite set: the orders a directory listing may have. *)
Orders(S) ==
    { s \in [1..Cardinality(S) -> S] :
        \A i, j \in 1..Cardinality(S) : s[i] = s[j] => i = j }

(* What os.walk lists in the directory at relative path rel. *)
ListDirs(rel) ==
    { p[Len(rel) + 1] : p \in { q \in fs : Len(q) > Len(rel) + 1 /\ IsPrefix(rel, q) } }

ListFiles(rel) ==
    { p[Len(rel) + 1] : p \in { q \in fs : Len(q) = Len(rel) + 1 /\ IsPrefix(rel, q) } }

(* d not in exclude_patterns / file not in exclude_patterns *)
NotExcluded(name) == name \notin exclude_patterns

(* The walk without the pruning of dirs. *)
PruneDirsKeepsAll(dirs) == dirs

(* dirs[:] = [d for d in dirs if d not in exclude_patterns] *)
PruneDirs(dirs) == SelectSeq(dirs, NotExcluded)

(* The files of one listing that the loop appends. *)
KeepFiles(files) == SelectSeq(files, NotExcluded)

RECURSIVE SumSizes(_)
SumSizes(paths) ==
    IF paths = <<>> THEN 0
    ELSE SizeOf(SubSeq(Head(paths), Len(source_dir) + 1, Len(Head(paths))))
         + SumSizes(Tail(paths))

(* Path(source_dir).name *)
PathName(path) == IF path = <<>> THEN <<>> ELSE path[Len(path)]

(* The entry named by the file's basename alone. *)
RelativeToBasename(path, base) == <<path[Len(path)]>>

(* file_path.relative_to(source_dir) *)
RelativeTo(path, base) == SubSeq(path, Len(base) + 1, Len(path))

DigitChars == <<"0", "1", "2", "3", "4", "5", "6", "7", "8", "9">>

RECURSIVE Pow10(_)
Pow10(k) == IF k = 0 THEN 1 ELSE 10 * Pow10(k - 1)

(* %Y, %m, %d, %H, %M, %S: the number in w digits, zero padded. *)
ZeroPad(n, w) == [i \in 1..w |-> DigitChars[((n \div Pow10(w - i)) % 10) + 1]]

(* now.strftime("%Y%m%d_%H%M%S") *)
strftime(now) ==
    ZeroPad(now.year, 4) \o ZeroPad(now.month, 2) \o ZeroPad(now.day, 2)
    \o <<"_">> \o ZeroPad(now.hour, 2) \o ZeroPad(now.minute, 2)
    \o ZeroPad(now.second, 2)

(* base_name = custom_name or Path(source_dir).name *)
BaseName(name, src) ==
    IF name.given /\ name.value # <<>> THEN name.value ELSE PathName(src)

(* The name stamped whatever use_timestamp says. *)
ZipFilenameAlwaysStamped(base, stamped, now) ==
    base \o <<"_">> \o strftime(now) \o N_zip

(* zip_filename: with or without the timestamp. *)
ZipFilename(base, stamped, now) ==
    IF stamped THEN base \o <<"_">> \o strftime(now) \o N_zip
    ELSE base \o N_zip

(* The destination as a path under the source root, when it lies there. *)
DestInTree(zp) == zp.dir.rel \o <<zp.name>>

(* A test that an empty list does not pass: file_paths is None. *)
NoFilesIsNone == FALSE

(* not file_paths *)
NoFiles == file_paths = <<>>

(* The exit statuses the code passes to sys.exit. *)
NoFilesExitStatus == 1
ErrorExitStatus == 1
CancelExitStatus == 0

NoStats == [files |-> 0, original |-> FormatInt(<<>>, "B"),
            compressed |-> FormatInt(<<>>, "B"), ratio |-> [num |-> 0, den |-> 1]]

NoPath == [dir |-> [inside |-> FALSE, rel |-> <<>>], name |-> <<>>]


NoText == [whole |-> 0, decimals |-> <<>>, unit |-> ""]

(***************************************************************************)
(* The run: main() calls create_zip() with the parsed arguments.           *)
(***************************************************************************)
Init ==
    /\ source_kind \in SourceKinds
    /\ source_dir \in SourceDirs
    /\ fs \in (IF source_kind = "dir" THEN Trees ELSE {{}})
    /\ fs0 = fs
    /\ output_path \in
         (IF source_kind = "dir" THEN OutputArgs
          ELSE { o \in OutputArgs : ~o.inside })
    /\ custom_name \in NameArgs
    /\ exclude \in ExcludeArgs
    /\ use_timestamp \in BOOLEAN
    /\ pc = Order[1]
    /\ walk_stack = IF source_kind = "dir" THEN << <<>> >> ELSE <<>>
    /\ file_paths = <<>>
    /\ total_size = 0
    /\ zip_path = NoPath
    /\ mkdir_done = FALSE
    /\ archive = <<>>
    /\ archive_state = "none"
    /\ stats = NoStats
    /\ fault = "none"
    /\ out = <<>>
    /\ exited = FALSE
    /\ exit_status = 0
    /\ size_bytes = <<>>
    /\ size_text = NoText

Running(p) == ~exited /\ pc = p

(* The process ends with this status after printing msg. *)
Exit(msg, status) ==
    /\ out' = Append(out, msg)
    /\ exited' = TRUE
    /\ exit_status' = status

(* One iteration of the os.walk loop: the directory on top of the stack is *)
(* listed, its excluded subdirectories are pruned, and its files that are  *)
(* not excluded are appended to file_paths in the order listed.            *)
WalkDir ==
    /\ Running("walk")
    /\ walk_stack # <<>>
    /\ LET root == Head(walk_stack)
       IN  \E dirs \in Orders(ListDirs(root)), files \in Orders(ListFiles(root)) :
             LET kept  == PruneDirs(dirs)
                 found == KeepFiles(files)
                 paths == [i \in 1..Len(found) |-> source_dir \o root \o <<found[i]>>]
             IN  /\ file_paths' = file_paths \o paths
                 /\ total_size' = total_size + SumSizes(paths)
                 /\ walk_stack' = [i \in 1..Len(kept) |-> root \o <<kept[i]>>]
                                    \o Tail(walk_stack)
    /\ UNCHANGED << fs, inputs, pc, zip_path, mkdir_done, archive, archive_state,
                    stats, fault, out, exited, exit_status, human >>

(* path.stat() raises for the j-th file found in a directory: the          *)
(* exception is not caught, and the interpreter ends with a traceback.     *)
WalkStatError ==
    /\ Running("walk")
    /\ walk_stack # <<>>
    /\ LET root == Head(walk_stack)
       IN  \E files \in Orders(ListFiles(root)) :
             LET found == KeepFiles(files)
                 paths == [i \in 1..Len(found) |-> source_dir \o root \o <<found[i]>>]
             IN  \E j \in 1..Len(found) :
                   /\ file_paths' = file_paths \o SubSeq(paths, 1, j)
                   /\ total_size' = total_size + SumSizes(SubSeq(paths, 1, j - 1))
    /\ fault' = "stat"
    /\ Exit(<<"Traceback", "OSError">>, 1)
    /\ UNCHANGED << fs, inputs, pc, walk_stack, zip_path, mkdir_done, archive,
                    archive_state, stats, human >>

(* os.walk is exhausted: at once when source_dir is no directory. *)
WalkEnd ==
    /\ Running("walk")
    /\ walk_stack = <<>>
    /\ pc' = After("walk")
    /\ UNCHANGED << fs, inputs, walk_stack, file_paths, total_size, zip_path,
                    mkdir_done, archive, archive_state, stats, fault, out,
                    exited, exit_status, human >>

(* if not file_paths: print, sys.exit(1) *)
CheckFiles ==
    /\ Running("check")
    /\ IF NoFiles
       THEN /\ Exit(<<"NoFiles", "No files found to zip!">>, NoFilesExitStatus)
            /\ pc' = pc
       ELSE /\ pc' = After("check")
            /\ UNCHANGED << out, exited, exit_status >>
    /\ UNCHANGED << fs, inputs, walk_stack, file_paths, total_size, zip_path,
                    mkdir_done, archive, archive_state, stats, fault, human >>

(* base_name, zip_filename, zip_path *)
BuildName ==
    /\ Running("name")
    /\ \E now \in Clock :
         zip_path' = [dir |-> output_path,
                      name |-> ZipFilename(BaseName(custom_name, source_dir),
                                           use_timestamp, now)]
    /\ pc' = After("name")
    /\ UNCHANGED << fs, inputs, walk_stack, file_paths, total_size, mkdir_done,
                    archive, archive_state, stats, fault, out, exited,
                    exit_status, human >>

(* zip_path.parent.mkdir(parents=True, exist_ok=True) *)
MakeDir ==
    /\ Running("mkdir")
    /\ mkdir_done' = TRUE
    /\ pc' = After("mkdir")
    /\ UNCHANGED << fs, inputs, walk_stack, file_paths, total_size, zip_path,
                    archive, archive_state, stats, fault, out, exited,
                    exit_status, human >>

(* mkdir raises, outside the try block. *)
MakeDirFails ==
    /\ Running("mkdir")
    /\ fault' = "mkdir"
    /\ Exit(<<"Traceback", "OSError">>, 1)
    /\ UNCHANGED << fs, inputs, pc, walk_stack, file_paths, total_size, zip_path,
                    mkdir_done, archive, archive_state, stats, human >>

(* with zipfile.ZipFile(zip_path, 'w', ...) as zipf: the file is created,  *)
(* or emptied when it exists.                                              *)
OpenArchive ==
    /\ Running("open")
    /\ archive_state' = "open"
    /\ archive' = <<>>
    /\ fs' = IF zip_path.dir.inside THEN fs \cup {DestInTree(zip_path)} ELSE fs
    /\ out' = Append(out, <<"Starting", "">>)
    /\ pc' = After("open")
    /\ UNCHANGED << inputs, walk_stack, file_paths, total_size, zip_path,
                    mkdir_done, stats, fault, exited, exit_status, human >>

(* The handler without its sys.exit(1): main returns, and the status is 0. *)
HandleExceptionNoExit(what, detail) ==
    /\ fault' = what
    /\ out' = out \o <<<<"Error", detail>>>>
    /\ exited' = TRUE
    /\ exit_status' = 0

(* except Exception as e: print the error, sys.exit(1) *)
HandleException(what, detail) ==
    /\ fault' = what
    /\ out' = out \o <<<<"Error", detail>>>>
    /\ exited' = TRUE
    /\ exit_status' = ErrorExitStatus

(* ZipFile(...) raises. *)
OpenFails ==
    /\ Running("open")
    /\ HandleException("open", "OSError")
    /\ UNCHANGED << fs, inputs, pc, walk_stack, file_paths, total_size, zip_path,
                    mkdir_done, archive, archive_state, stats, human >>

(* One iteration of the write loop: zipf.write(file_path, rel_path). *)
WriteEntry ==
    /\ Running("write")
    /\ archive_state = "open"
    /\ Len(archive) < Len(file_paths)
    /\ LET file_path == file_paths[Len(archive) + 1]
       IN  IF IsPrefix(source_dir, file_path)
           THEN /\ archive' = Append(archive, RelativeTo(file_path, source_dir))
                /\ UNCHANGED << archive_state, fault, out, exited, exit_status >>
           ELSE /\ HandleException("relative_to", "ValueError")
                /\ archive_state' = "closed"
                /\ archive' = archive
    /\ UNCHANGED << fs, inputs, pc, walk_stack, file_paths, total_size, zip_path,
                    mkdir_done, stats, human >>

(* Reading the file or writing the entry raises: the with block closes the *)
(* archive as it is, and the handler ends the run.                         *)
WriteFails ==
    /\ Running("write")
    /\ archive_state = "open"
    /\ Len(archive) < Len(file_paths)
    /\ HandleException("write", "OSError")
    /\ archive_state' = "closed"
    /\ UNCHANGED << fs, inputs, pc, walk_stack, file_paths, total_size, zip_path,
                    mkdir_done, archive, stats, human >>

(* The loop is over and the with block closes the archive. *)
CloseArchive ==
    /\ Running("write")
    /\ archive_state = "open"
    /\ Len(archive) = Len(file_paths)
    /\ archive_state' = "closed"
    /\ pc' = After("write")
    /\ UNCHANGED << fs, inputs, walk_stack, file_paths, total_size, zip_path,
                    mkdir_done, archive, stats, fault, out, exited, exit_status,
                    human >>

(* "Compression Ratio": (1 - zip_size/total_size)*100, before formatting. *)
Ratio(original, compressed) ==
    [num |-> (original - compressed) * 100, den |-> original]

(* The statistics, the success message, and the return to main: or the     *)
(* division raises ZeroDivisionError, which the handler catches.           *)
ComputeStats ==
    /\ Running("stats")
    /\ \E zip_size \in 1..MaxZipSize :
         IF total_size = 0
         THEN /\ HandleException("ratio", "division by zero")
              /\ UNCHANGED << stats, pc >>
         ELSE /\ stats' = [files |-> Len(file_paths),
                           original |-> human_size(ToBig(total_size)),
                           compressed |-> human_size(ToBig(zip_size)),
                           ratio |-> Ratio(total_size, zip_size)]
              /\ out' = out \o << <<"Success", "">>, <<"Stats", "">> >>
              /\ pc' = After("stats")
              /\ exited' = TRUE
              /\ exit_status' = 0
              /\ fault' = fault
    /\ UNCHANGED << fs, inputs, walk_stack, file_paths, total_size, zip_path,
                    mkdir_done, archive, archive_state, human >>

(* except KeyboardInterrupt: print, sys.exit(0).  An open archive is       *)
(* closed by its with block on the way out.                                *)
Interrupt ==
    /\ ~exited
    /\ Exit(<<"Cancelled", "Operation cancelled by user">>, CancelExitStatus)
    /\ archive_state' = IF archive_state = "open" THEN "closed" ELSE archive_state
    /\ UNCHANGED << fs, inputs, pc, walk_stack, file_paths, total_size, zip_path,
                    mkdir_done, archive, stats, fault, human >>

Next ==
    \/ WalkDir
    \/ WalkStatError
    \/ WalkEnd
    \/ CheckFiles
    \/ BuildName
    \/ MakeDir
    \/ MakeDirFails
    \/ OpenArchive
    \/ OpenFails
    \/ WriteEntry
    \/ WriteFails
    \/ CloseArchive
    \/ ComputeStats
    \/ Interrupt

Spec == Init /\ [][Next]_vars


(***************************************************************************)
(* human_size on its own: the byte count is drawn from the samples, and    *)
(* the one action applies the function.  No run of create_zip is under     *)
(* way.                                                                    *)
(***************************************************************************)
BigSamples ==
    { d \in UNION { [1..k -> DigitSamples] : k \in 0..MaxDigits } :
        d = <<>> \/ d[Len(d)] # 0 }

HumanInit ==
    /\ size_bytes \in BigSamples
    /\ size_text = NoText
    /\ source_kind = "dir"
    /\ source_dir \in SourceDirs
    /\ fs = {}
    /\ fs0 = {}
    /\ output_path = [inside |-> FALSE, rel |-> <<>>]
    /\ custom_name = [given |-> FALSE, value |-> <<>>]
    /\ exclude = <<>>
    /\ use_timestamp = FALSE
    /\ pc = "idle"
    /\ walk_stack = <<>>
    /\ file_paths = <<>>
    /\ total_size = 0
    /\ zip_path = NoPath
    /\ mkdir_done = FALSE
    /\ archive = <<>>
    /\ archive_state = "none"
    /\ stats = NoStats
    /\ fault = "none"
    /\ out = <<>>
    /\ exited = TRUE
    /\ exit_status = 0

HumanSize ==
    /\ pc = "idle"
    /\ size_text = NoText
    /\ size_text' = human_size(size_bytes)
    /\ UNCHANGED << fs, inputs, pc, walk_stack, file_paths, total_size, zip_path,
                    mkdir_done, archive, archive_state, stats, fault, out,
                    exited, exit_status, size_bytes >>

HumanNext == HumanSize

SpecHuman == HumanInit /\ [][HumanNext]_vars

(***************************************************************************)
(* What the claims speak of                                                *)
(***************************************************************************)
Range(s) == { s[i] : i \in DOMAIN s }

Printed(kind) == \E i \in DOMAIN out : out[i][1] = kind

Cancelled == Printed("Cancelled")

Succeeded == Printed("Success")

(* The files of a tree no component of whose path under the root is an     *)
(* exclusion pattern.                                                      *)
Eligible(tree) ==
    { p \in tree : \A i \in 1..Len(p) :
        p[i] \notin get_excluded_patterns /\ p[i] \notin Range(exclude) }

(* The paths create_zip holds for the files of a set of paths under the root. *)
Under(paths) == { source_dir \o p : p \in paths }

NoDuplicates(s) == \A i, j \in DOMAIN s : s[i] = s[j] => i = j

WalkOver == pc # "walk" /\ pc # "idle"


(***************************************************************************)
(* C1.  Once the discovery loop is over, file_paths holds a file of the    *)
(* tree if and only if no component of its path under the source root      *)
(* (its own name, or the name of a directory above it in the walked tree)  *)
(* is one of the default or caller-supplied patterns, and holds it once.   *)
(***************************************************************************)
C1_DiscoveryIsExactlyTheEligibleFiles ==
    WalkOver =>
        /\ Range(file_paths) = Under(Eligible(fs0))
        /\ NoDuplicates(file_paths)

(* A finished walk of a tree with a file skipped for its own name, a file  *)
(* below a pruned directory, and a file found two levels down.             *)
C1_Witness ==
    /\ WalkOver
    /\ \E p \in fs0 : Len(p) = 1 /\ p[1] \in get_excluded_patterns
    /\ \E p \in fs0 : Len(p) >= 2 /\ p[1] \in get_excluded_patterns
                      /\ p[Len(p)] \notin get_excluded_patterns
    /\ \E q \in Range(file_paths) : Len(q) >= Len(source_dir) + 2

(***************************************************************************)
(* C2.  After a run that reports success the archive's entries are the     *)
(* discovered files' paths under the source root, in discovery order: the  *)
(* i-th entry names the i-th discovered file, none twice and none missing. *)
(***************************************************************************)
C2_EntriesAreTheDiscoveredFilesInOrder ==
    Succeeded =>
        /\ Len(archive) = Len(file_paths)
        /\ \A i \in DOMAIN archive : source_dir \o archive[i] = file_paths[i]
        /\ NoDuplicates(archive)
        /\ Range(archive) = Eligible(fs0)

(* A success with three entries, one of them below a subdirectory. *)
C2_Witness ==
    /\ Succeeded
    /\ Len(archive) >= 3
    /\ \E i \in DOMAIN archive : Len(archive[i]) >= 2

(***************************************************************************)
(* C3.  When discovery ends with an empty list, the run goes no further    *)
(* than the emptiness test: unless it is cancelled it ends there with the  *)
(* "no files" message and a non-zero status, and neither the output        *)
(* directory nor an archive file has been created.                         *)
(***************************************************************************)
C3_EmptyListEndsBeforeAnythingIsCreated ==
    (WalkOver /\ file_paths = <<>>) =>
        /\ pc = "check"
        /\ ~mkdir_done
        /\ archive_state = "none"
        /\ fs = fs0
        /\ (exited /\ ~Cancelled) =>
              /\ out = << <<"NoFiles", "No files found to zip!">> >>
              /\ exit_status # 0

(* The run has ended on the emptiness test, the source directory holding   *)
(* files that are all excluded.                                            *)
C3_Witness ==
    /\ exited
    /\ Printed("NoFiles")
    /\ source_kind = "dir"
    /\ fs0 # {}

(***************************************************************************)
(* C4.  When every discovered file is empty (total_size = 0, one file or   *)
(* more) and the archive was written completely, the run that is not       *)
(* cancelled ends as a success with status 0 and a ratio of 0.             *)
(***************************************************************************)
C4_ZeroOriginalSizeGivesZeroRatio ==
    ( /\ exited
      /\ ~Cancelled
      /\ file_paths # <<>>
      /\ total_size = 0
      /\ archive_state = "closed"
      /\ Len(archive) = Len(file_paths)
      /\ fault \in {"none", "ratio"} )
    => ( /\ exit_status = 0
         /\ Succeeded
         /\ stats.ratio.num = 0 )

(***************************************************************************)
(* C5.  The process ends with status 0 only when the archive was written   *)
(* completely and success was reported; a cancelled run ends non-zero.     *)
(***************************************************************************)
C5_StatusZeroOnlyOnSuccess ==
    exited =>
        /\ exit_status = 0 =>
              /\ Succeeded
              /\ archive_state = "closed"
              /\ Len(archive) = Len(file_paths)
        /\ Cancelled => exit_status # 0

(***************************************************************************)
(* C6.  When creating the archive or writing an entry fails, the run has   *)
(* ended with a non-zero status, the archive is no longer written to and   *)
(* lacks the entries that were left, and success was not reported; success *)
(* is reported only with every discovered file written and the archive     *)
(* closed.                                                                 *)
(***************************************************************************)
C6_FailureAbortsAndIsNotSuccess ==
    /\ fault \in {"open", "write"} =>
          /\ exited
          /\ exit_status # 0
          /\ ~Succeeded
          /\ ~Printed("Stats")
          /\ archive_state # "open"
    /\ fault = "open" => archive = <<>>
    /\ fault = "write" => Len(archive) < Len(file_paths)
    /\ Succeeded =>
          /\ fault = "none"
          /\ archive_state = "closed"
          /\ Len(archive) = Len(file_paths)

(* The write of an entry failed after an earlier entry had been written,   *)
(* with a further file still waiting.                                      *)
C6_Witness ==
    /\ fault = "write"
    /\ Len(archive) >= 1
    /\ Len(file_paths) >= Len(archive) + 2


(***************************************************************************)
(* The shape of a file name, read back from its characters.                *)
(***************************************************************************)
DigitValue(ch) == (CHOOSE k \in 1..10 : DigitChars[k] = ch) - 1

IsDigit(ch) == \E k \in 1..10 : DigitChars[k] = ch

RECURSIVE Number(_)
Number(chars) ==
    IF chars = <<>> THEN 0
    ELSE 10 * Number(SubSeq(chars, 1, Len(chars) - 1)) + DigitValue(chars[Len(chars)])

(* ts is YYYYMMDD_HHMMSS of the time now. *)
IsStampOf(ts, now) ==
    /\ Len(ts) = 15
    /\ ts[9] = "_"
    /\ \A i \in (1..15) \ {9} : IsDigit(ts[i])
    /\ Number(SubSeq(ts, 1, 4)) = now.year
    /\ Number(SubSeq(ts, 5, 6)) = now.month
    /\ Number(SubSeq(ts, 7, 8)) = now.day
    /\ Number(SubSeq(ts, 10, 11)) = now.hour
    /\ Number(SubSeq(ts, 12, 13)) = now.minute
    /\ Number(SubSeq(ts, 14, 15)) = now.second

(* name is base + ".zip", or base + "_" + a time stamp + ".zip". *)
NameIs(name, base, stamped) ==
    IF stamped
    THEN /\ Len(name) = Len(base) + 1 + 15 + Len(N_zip)
         /\ SubSeq(name, 1, Len(base)) = base
         /\ name[Len(base) + 1] = "_"
         /\ \E now \in Clock :
               IsStampOf(SubSeq(name, Len(base) + 2, Len(base) + 16), now)
         /\ SubSeq(name, Len(base) + 17, Len(name)) = N_zip
    ELSE name = base \o N_zip

NameBuilt == zip_path # NoPath

(***************************************************************************)
(* C7, as claimed.  The destination is output_dir joined with base_name +  *)
(* ".zip", or with base_name + "_" + YYYYMMDD_HHMMSS + ".zip" unless the   *)
(* time stamp is suppressed, base_name being the override whenever one is  *)
(* given and the source directory's basename otherwise.                    *)
(***************************************************************************)
C7_NameUsesAnyGivenOverride ==
    NameBuilt =>
        /\ zip_path.dir = output_path
        /\ NameIs(zip_path.name,
                  IF custom_name.given THEN custom_name.value
                  ELSE source_dir[Len(source_dir)],
                  use_timestamp)

(***************************************************************************)
(* C7, amended.  The same, base_name being the override when a non-empty   *)
(* one is given and the source directory's basename otherwise (an empty    *)
(* override counts as none); without the time stamp and with the base name *)
(* proj the file name is proj.zip.                                         *)
(***************************************************************************)
C7_NameUsesNonEmptyOverride ==
    NameBuilt =>
        /\ zip_path.dir = output_path
        /\ NameIs(zip_path.name,
                  IF custom_name.given /\ custom_name.value # <<>>
                  THEN custom_name.value
                  ELSE source_dir[Len(source_dir)],
                  use_timestamp)
        /\ (~use_timestamp /\ ~custom_name.given /\ source_dir[Len(source_dir)] = N_proj)
              => zip_path.name = <<"p", "r", "o", "j", ".", "z", "i", "p">>

(* A stamped name built from a non-empty override. *)
C7_Witness ==
    /\ NameBuilt
    /\ use_timestamp
    /\ custom_name.given
    /\ custom_name.value = N_rel
    /\ Len(zip_path.name) = 23

(***************************************************************************)
(* C8.  A run whose source root is missing or is no directory does not end *)
(* with the outcome of an existing directory without eligible files (the   *)
(* "no files" message and its exit status): it reports a discovery error.  *)
(***************************************************************************)
C8_MissingRootIsNotReportedAsEmpty ==
    (exited /\ ~Cancelled /\ source_kind # "dir") =>
        ~ ( /\ Printed("NoFiles")
            /\ exit_status = NoFilesExitStatus )

(***************************************************************************)
(* Arithmetic on byte counts of any size, for stating what human_size      *)
(* returns.                                                                *)
(***************************************************************************)
RECURSIVE BigNorm(_)
BigNorm(d) ==
    IF d # <<>> /\ d[Len(d)] = 0 THEN BigNorm(SubSeq(d, 1, Len(d) - 1)) ELSE d

RECURSIVE BigAdd(_, _, _)
BigAdd(a, b, c) ==
    IF a = <<>> /\ b = <<>> THEN (IF c = 0 THEN <<>> ELSE <<c>>)
    ELSE LET x == IF a = <<>> THEN 0 ELSE Head(a)
             y == IF b = <<>> THEN 0 ELSE Head(b)
             t == x + y + c
         IN  <<t % 1024>> \o BigAdd(IF a = <<>> THEN a ELSE Tail(a),
                                    IF b = <<>> THEN b ELSE Tail(b),
                                    t \div 1024)

RECURSIVE BigTimes(_, _, _)
BigTimes(d, m, c) ==
    IF d = <<>> THEN (IF c = 0 THEN <<>> ELSE <<c>>)
    ELSE <<(Head(d) * m + c) % 1024>>
         \o BigTimes(Tail(d), m, (Head(d) * m + c) \div 1024)

RECURSIVE LexLeq(_, _)
LexLeq(a, b) ==
    IF a = <<>> THEN TRUE
    ELSE IF a[Len(a)] # b[Len(b)] THEN a[Len(a)] < b[Len(b)]
    ELSE LexLeq(SubSeq(a, 1, Len(a) - 1), SubSeq(b, 1, Len(b) - 1))

BigLeq(a, b) ==
    LET x == BigNorm(a)
        y == BigNorm(b)
    IN  IF Len(x) # Len(y) THEN Len(x) < Len(y) ELSE LexLeq(x, y)

(* d * 1024^j *)
BigShift(d, j) == IF d = <<>> THEN d ELSE [i \in 1..j |-> 0] \o d

RECURSIVE IntToBig(_)
IntToBig(n) == IF n = 0 THEN <<>> ELSE <<n % 1024>> \o IntToBig(n \div 1024)

(* whole.c1c2 is n / 1024^j to within tol half hundredths:                 *)
(* | 2 (100 whole + 10 c1 + c2) 1024^j - 200 n | <= tol 1024^j             *)
WithinHalfHundredths(text, n, j, tol) ==
    LET h  == BigAdd(BigTimes(IntToBig(text.whole), 100, 0),
                     IntToBig(10 * text.decimals[1] + text.decimals[2]), 0)
        t  == BigShift(BigTimes(h, 2, 0), j)
        a  == BigTimes(n, 200, 0)
        p  == BigShift(<<tol>>, j)
    IN  /\ BigLeq(t, BigAdd(a, p, 0))
        /\ BigLeq(a, BigAdd(t, p, 0))

(* n < 2^50: the count is a double as it stands. *)
ExactAsDouble(n) == Len(n) <= 5

(* How often n is divided: up to the first unit with a value below 1024,   *)
(* and no further than GB.                                                 *)
Divisions(n) == IF Len(n) <= 1 THEN 0 ELSE IF Len(n) >= 4 THEN 3 ELSE Len(n) - 1

Returned == size_text # NoText

(***************************************************************************)
(* C9.  human_size(n) names the first of B, KB, MB, GB at which n divided  *)
(* by 1024 per step is below 1024, or GB; below 1024 it is n as an integer *)
(* without decimals and " B", otherwise the scaled value to two decimals   *)
(* (the nearest hundredth for a count that is exact as a double, within a  *)
(* hundredth for any) and the unit: 500 gives "500 B", 2048 "2.00 KB",     *)
(* 2^30 "1.00 GB".                                                         *)
(***************************************************************************)
C9_HumanSizeScalesAndFormats ==
    Returned =>
        LET n == size_bytes
            j == Divisions(n)
        IN  /\ size_text.unit = <<"B", "KB", "MB", "GB">>[j + 1]
            /\ j = 0 =>
                  /\ size_text.decimals = <<>>
                  /\ IntToBig(size_text.whole) = n
            /\ j > 0 =>
                  /\ Len(size_text.decimals) = 2
                  /\ \A i \in 1..2 : size_text.decimals[i] \in 0..9
                  /\ ExactAsDouble(n) => WithinHalfHundredths(size_text, n, j, 1)
                  /\ WithinHalfHundredths(size_text, n, j, 2)
            /\ n = <<500>> =>
                  size_text = [whole |-> 500, decimals |-> <<>>, unit |-> "B"]
            /\ n = <<0, 2>> =>
                  size_text = [whole |-> 2, decimals |-> <<0, 0>>, unit |-> "KB"]
            /\ n = <<0, 0, 0, 1>> =>
                  size_text = [whole |-> 1, decimals |-> <<0, 0>>, unit |-> "GB"]

(* human_size has returned for a count of 1024 GB or more: the loop        *)
(* stopped at GB with a value that is not below 1024.                      *)
C9_Witness ==
    /\ Returned
    /\ Len(size_bytes) = 5
    /\ size_text.unit = "GB"
    /\ size_text.whole >= 1024

(***************************************************************************)
(* C10.  The archive is created only after discovery is over, with the     *)
(* file list as discovery left it; so when no file was at the destination  *)
(* as the run started, the destination is not in the file list and is not  *)
(* an entry of the archive, also when it lies in the source tree.          *)
(***************************************************************************)
C10_ArchiveIsNotAnEntryOfItself ==
    /\ archive_state # "none" =>
          /\ WalkOver
          /\ walk_stack = <<>>
          /\ Range(file_paths) = Under(Eligible(fs0))
    /\ (NameBuilt /\ zip_path.dir.inside /\ DestInTree(zip_path) \notin fs0) =>
          /\ source_dir \o DestInTree(zip_path) \notin Range(file_paths)
          /\ DestInTree(zip_path) \notin Range(archive)

(* A success whose archive was created in the source directory itself,     *)
(* where no such file was before.                                          *)
C10_Witness ==
    /\ Succeeded
    /\ zip_path.dir.inside
    /\ zip_path.dir.rel = <<>>
    /\ DestInTree(zip_path) \in fs \ fs0

=============================================================================
